---- MODULE Spec2Model ----
(***************************************************************************)
(* UserPreferences (src/request-data/user-preferences/preferences.js):     *)
(* the preference containers (site proxy, projects proxy with             *)
(* autovivified per-project proxies) and the propagation engine            *)
(* (#propagate / #request) that mirrors every accepted mutation to the     *)
(* backend under Web Locks and AbortControllers.                           *)
(*                                                                         *)
(* Modelling of the platform:                                              *)
(*  - navigator.locks is one lock manager shared by all app instances of   *)
(*    the origin.  It handles requests in the order they are made, grants  *)
(*    a lock to the head of the queue of its name, and runs the callback   *)
(*    of a request as a task of the requesting instance's event loop.      *)
(*    Tasks of one event loop run in FIFO order (tasks[i]).                *)
(*  - The promise returned by a lock callback releases the lock when it    *)
(*    settles.                                                             *)
(*  - The transport (this.#http) is external: a call in flight may reach   *)
(*    the backend, and settles later as success, failure or (once its      *)
(*    signal is aborted) cancellation.                                     *)
(***************************************************************************)
EXTENDS Integers, Sequences, FiniteSets, TLC

\* Bounds on the number of accepted mutations (= propagations started) of a
\* run: of the runs that exercise the engine with accepted calls only, and of
\* the runs that make every kind of call, rejected ones included.
MaxOps == 3
MaxApiOps == 2

\* Bound on the accepted mutations of the runs of two app instances.
MaxTwoOps == 3

----------------------------------------------------------------------------
\* Values of the JavaScript world

null == "null"              \* the value null: deletion sentinel of #propagate
undefined == "undefined"    \* a missing property / the value of this.instanceID
Absent == "absent"          \* the key is not a property of the object

\* `${null}`: a null projectId as the template literal of line 70 renders it
NoProject == <<"n", "u", "l", "l">>

Digits == {"0", "1", "2", "3", "4", "5", "6", "7", "8", "9"}

\* App instances; #instanceID = crypto.randomUUID() is distinct per instance.
Instances == {"i1", "i2"}

\* Project ids as the projects proxy receives them (property keys are strings).
ValidIdInputs == { <<"1">>, <<"0">> }
BadIdInputs == { <<"3", ".", "5">>, <<"-", "1">>, <<"a", "b", "c">> }
IdInputs == ValidIdInputs \cup BadIdInputs

\* Property names used by callers; "k" has a site normalizer and a project
\* normalizer, "u" is registered nowhere.
KeyInputs == {"k", "u"}
SiteRegistered == {"k"}
ProjectRegistered == {"k"}
Keys == SiteRegistered \cup ProjectRegistered

\* Raw values handed to set; "A" normalizes to "a", "x" is rejected.
RawInputs == {"A", "x"}
Values == {"a", "b"}

\* Slots: (projectId or NoProject, key)
Slots == ({NoProject} \X SiteRegistered) \cup (ValidIdInputs \X ProjectRegistered)

----------------------------------------------------------------------------
VARIABLES
  site,              \* site[i][k]: target of the site proxy of instance i
  projects,          \* projects[i][id]: target of the projects proxy
  budget,            \* accepted mutations this run may still make
  abortControllers,  \* abortControllers[i][k]: #abortControllers, 0 = undefined
  aborted,           \* controllers (by propagation) whose abort() was called
  props,             \* props[p]: the p-th #propagate call
  held,              \* lock manager: held[name] = holding propagation or 0
  queue,             \* lock manager: queue[name] = waiting propagations
  tasks,             \* tasks[i]: lock callbacks queued on i's event loop
  backend,           \* backend[slot]: what the server stores
  lastCall,          \* how the most recent call on a proxy returned: ok or
                     \* the error thrown
  lastProxy,         \* <<id, ident>>: what projects[id] returned most recently
  abortLog,          \* <<p, c>>: propagation p called abort() on controller c
  observe,           \* whether this run records the history variable late
  late               \* mutations made after a call of their slot had settled

vars == << site, projects, budget, abortControllers, aborted, props, held,
           queue, tasks, backend, lastCall, lastProxy, abortLog, observe, late >>

----------------------------------------------------------------------------
\* Normalizer registry (./normalizers is not part of the sources at hand)

Err == "Error"

\* normalizeFn(prop): throws if prop is not registered
normalizeFn(registry, prop) == IF prop \in registry THEN "fn" ELSE Err

\* normalize(prop, value): the registered rule applied to value
normalize(registry, prop, value) ==
  IF normalizeFn(registry, prop) = Err THEN Err
  ELSE CASE value = "A" -> "a"
         [] value = "b" -> "b"
         [] OTHER       -> Err

\* isReactive(target[projectId]) for a proxy made at line 155: the get trap
\* (getProp) passes Vue's own __v_ properties through to the shallowReactive
\* object it fronts.
getPropIsReactive(entry) == entry.kind = "proxy"

----------------------------------------------------------------------------
\* Names of locks

\* Mutant of privateInstanceID: the field is as unset as the public property.
privateInstanceIDUnset(i) == undefined

\* this.#instanceID, set in the constructor
privateInstanceID(i) == i

\* this.instanceID: a public property that is never assigned
publicInstanceID(i) == undefined

keyLockName(i, projectId, k) == << "keystack", privateInstanceID(i), projectId, k >>

lockopsName(i) == << "lockops", publicInstanceID(i), <<>>, "" >>

LockNames ==
  { lockopsName(i) : i \in Instances } \cup
  { keyLockName(i, s[1], s[2]) : i \in Instances, s \in Slots }

----------------------------------------------------------------------------
\* navigator.locks: the lock manager.  lm = [held, queue, tasks].

Task(type, p, got) == [type |-> type, p |-> p, got |-> got]

\* the callback a granted request of this name runs
CallbackOf(name) == IF name[1] = "lockops" THEN "lockops" ELSE "keyGranted"

\* Mutant of LockRequest: a request that has to wait goes to the head of the
\* queue.
LockRequestLifo(lm, name, p, i) ==
  IF lm.held[name] = 0 /\ lm.queue[name] = <<>>
  THEN [lm EXCEPT !.held[name] = p,
                  !.tasks[i] = Append(@, Task(CallbackOf(name), p, TRUE))]
  ELSE [lm EXCEPT !.queue[name] = << p >> \o @]

\* locks.request(name, callback) by propagation p of instance i
LockRequest(lm, name, p, i) ==
  IF lm.held[name] = 0 /\ lm.queue[name] = <<>>
  THEN [lm EXCEPT !.held[name] = p,
                  !.tasks[i] = Append(@, Task(CallbackOf(name), p, TRUE))]
  ELSE [lm EXCEPT !.queue[name] = Append(@, p)]

\* locks.request(name, {ifAvailable: true}, callback): never queues
LockRequestIfAvailable(lm, name, p, i) ==
  IF lm.held[name] = 0 /\ lm.queue[name] = <<>>
  THEN [lm EXCEPT !.held[name] = p,
                  !.tasks[i] = Append(@, Task("keyTry", p, TRUE))]
  ELSE [lm EXCEPT !.tasks[i] = Append(@, Task("keyTry", p, FALSE))]

\* the callback's promise settled: the lock goes to the head of the queue
LockRelease(lm, name) ==
  IF lm.queue[name] = <<>>
  THEN [lm EXCEPT !.held[name] = 0]
  ELSE LET q == Head(lm.queue[name]) IN
       [lm EXCEPT !.held[name] = q,
                  !.queue[name] = Tail(@),
                  !.tasks[props[q].inst] = Append(@, Task(CallbackOf(name), q, TRUE))]

LM == [held |-> held, queue |-> queue, tasks |-> tasks]

SetLM(lm) == /\ held' = lm.held
             /\ queue' = lm.queue
             /\ tasks' = lm.tasks

----------------------------------------------------------------------------
\* Initial state: the constructor, given the snapshot loaded at login.

EmptyProps == [k \in ProjectRegistered |-> Absent]

SnapshotSite == [k \in SiteRegistered |-> "a"]

SnapshotProjects ==
  [id \in IdInputs |->
     IF id = <<"1">>
     THEN [kind |-> "raw", ident |-> 0, data |-> [k \in ProjectRegistered |-> "b"]]
     ELSE [kind |-> undefined, ident |-> 0, data |-> EmptyProps]]

SnapshotBackend ==
  [s \in Slots |->
     IF s[1] = NoProject THEN SnapshotSite[s[2]]
     ELSE SnapshotProjects[s[1]].data[s[2]]]

InitWith(max, obs) ==
  /\ site = [i \in Instances |-> SnapshotSite]
  /\ projects = [i \in Instances |-> SnapshotProjects]
  /\ budget = max
  /\ abortControllers = [i \in Instances |-> [k \in Keys |-> 0]]
  /\ aborted = {}
  /\ props = <<>>
  /\ held = [n \in LockNames |-> 0]
  /\ queue = [n \in LockNames |-> <<>>]
  /\ tasks = [i \in Instances |-> <<>>]
  /\ backend = SnapshotBackend
  /\ lastCall = "none"
  /\ lastProxy = << <<>>, 0 >>
  /\ abortLog = {}
  /\ observe = obs
  /\ late = {}

Init == InitWith(MaxOps, FALSE)

InitApi == InitWith(MaxApiOps, FALSE)

InitBurst == InitWith(MaxOps, TRUE)

InitTwo == InitWith(MaxTwoOps, FALSE)

----------------------------------------------------------------------------
\* The propagation engine

\* how a call on a proxy returned to its caller
Returned(result) == lastCall' = result /\ UNCHANGED lastProxy

\* the propagations of (i, projectId, k) whose transport call has settled
Settled(i, projectId, k) ==
  { q \in 1..Len(props) : /\ props[q].inst = i
                          /\ props[q].projectId = projectId
                          /\ props[q].k = k
                          /\ props[q].pc = "settled" }

\* no transport call made (yet)
NoCall == [ method |-> "none", endpoint |-> "none", projectId |-> <<>>,
            k |-> "", data |-> undefined, signal |-> 0 ]

\* Mutant of propagate: the transport call is made before propagate returns,
\* without taking any lock.
propagateSync(i, k, v, projectId) ==
  LET p == Len(props) + 1 IN
  /\ props' = Append(props, [inst |-> i, projectId |-> projectId, k |-> k,
                             v |-> v, pc |-> "inflight", outcome |-> "none",
                             call |-> NoCall])
  /\ late' = IF observe /\ Settled(i, projectId, k) # {} THEN late \cup {p}
             ELSE late
  /\ SetLM(LM)

\* #propagate(k, v, projectId): the synchronous part, i.e. the request for the
\* coordination lock; the rest runs in the lock callbacks below.  Runs that
\* observe bursts also note the mutations that came after a transport call of
\* their slot had settled (late).
propagate(i, k, v, projectId) ==
  LET p == Len(props) + 1 IN
  /\ props' = Append(props, [inst |-> i, projectId |-> projectId, k |-> k,
                             v |-> v, pc |-> "lockops", outcome |-> "none",
                             call |-> NoCall])
  /\ late' = IF observe /\ Settled(i, projectId, k) # {} THEN late \cup {p}
             ELSE late
  /\ SetLM(LockRequest(LM, lockopsName(i), p, i))

\* Mutant of request: every call is a PUT of the value, a deletion included.
requestAlwaysPut(k, v, projectId, aborter) ==
  [ method   |-> "PUT",
    endpoint |-> IF projectId = NoProject THEN "userSitePreferences"
                                          ELSE "userProjectPreferences",
    projectId |-> IF projectId = NoProject THEN <<>> ELSE projectId,
    k        |-> k,
    data     |-> v,
    signal   |-> aborter ]

\* #request: the call handed to this.#http.request; signal is the signal of
\* the AbortController passed in
request(k, v, projectId, aborter) ==
  [ method   |-> IF v = null THEN "DELETE" ELSE "PUT",
    endpoint |-> IF projectId = NoProject THEN "userSitePreferences"
                                          ELSE "userProjectPreferences",
    projectId |-> IF projectId = NoProject THEN <<>> ELSE projectId,
    k        |-> k,
    data     |-> IF v = null THEN undefined ELSE v,
    signal   |-> aborter ]

\* const aborter = new AbortController() (line 78): one controller for each
\* propagation, named by the propagation
NewAbortController(p) == p

\* Mutant of LockopsCallback: the coordination lock is kept, as if the
\* callback returned a promise that stays pending.
LockopsCallbackHolds(i, p) ==
  LET name == keyLockName(i, props[p].projectId, props[p].k)
      lm1 == [LM EXCEPT !.tasks[i] = Tail(@)]
      lm2 == LockRequestIfAvailable(lm1, name, p, i)
  IN /\ props' = [props EXCEPT ![p].pc = "keyTry"]
     /\ SetLM(lm2)
     /\ UNCHANGED << abortControllers, aborted, abortLog >>

\* callback of the coordination lock (lines 73-95): try the key lock, then
\* return a resolved promise, which releases the coordination lock
LockopsCallback(i, p) ==
  LET name == keyLockName(i, props[p].projectId, props[p].k)
      lm1 == [LM EXCEPT !.tasks[i] = Tail(@)]
      lm2 == LockRequestIfAvailable(lm1, name, p, i)
      lm3 == LockRelease(lm2, lockopsName(i))
  IN /\ props' = [props EXCEPT ![p].pc = "keyTry"]
     /\ SetLM(lm3)
     /\ UNCHANGED << abortControllers, aborted, abortLog >>

\* Mutant of KeyTryCallback: a propagation that has to wait for the key lock
\* records its handle before it waits.
KeyTryCallbackRecordsEarly(i, p, lockForKey) ==
  LET k == props[p].k
      name == keyLockName(i, props[p].projectId, k)
      lm1 == [LM EXCEPT !.tasks[i] = Tail(@)]
      prev == abortControllers[i][k]
      aborter == NewAbortController(p)
  IN IF ~lockForKey
     THEN IF prev = 0
          THEN /\ props' = [props EXCEPT ![p].pc = "threw"]
               /\ SetLM(lm1)
               /\ UNCHANGED << abortControllers, aborted, abortLog >>
          ELSE /\ aborted' = aborted \cup {prev}
               /\ abortLog' = abortLog \cup {<<p, prev>>}
               /\ abortControllers' = [abortControllers EXCEPT ![i][k] = aborter]
               /\ props' = [props EXCEPT ![p].pc = "keyWait"]
               /\ SetLM(LockRequest(lm1, name, p, i))
     ELSE /\ abortControllers' = [abortControllers EXCEPT ![i][k] = aborter]
          /\ props' = [props EXCEPT ![p].pc = "inflight",
                                    ![p].call = request(k, props[p].v,
                                                        props[p].projectId, aborter)]
          /\ SetLM(lm1)
          /\ UNCHANGED << aborted, abortLog >>

\* Mutant of KeyTryCallback: with the key lock acquired at once, the call is
\* made without recording its handle.
KeyTryCallbackNoRecord(i, p, lockForKey) ==
  LET k == props[p].k
      name == keyLockName(i, props[p].projectId, k)
      lm1 == [LM EXCEPT !.tasks[i] = Tail(@)]
      prev == abortControllers[i][k]
      aborter == NewAbortController(p)
  IN IF ~lockForKey
     THEN IF prev = 0
          THEN /\ props' = [props EXCEPT ![p].pc = "threw"]
               /\ SetLM(lm1)
               /\ UNCHANGED << abortControllers, aborted, abortLog >>
          ELSE /\ aborted' = aborted \cup {prev}
               /\ abortLog' = abortLog \cup {<<p, prev>>}
               /\ props' = [props EXCEPT ![p].pc = "keyWait"]
               /\ SetLM(LockRequest(lm1, name, p, i))
               /\ UNCHANGED abortControllers
     ELSE /\ props' = [props EXCEPT ![p].pc = "inflight",
                                    ![p].call = request(k, props[p].v,
                                                        props[p].projectId, aborter)]
          /\ SetLM(lm1)
          /\ UNCHANGED << abortControllers, aborted, abortLog >>

\* Mutant of KeyTryCallback: having aborted the preceding request, it sends
\* the new one at once instead of waiting for the key lock.
KeyTryCallbackNoWait(i, p, lockForKey) ==
  LET k == props[p].k
      lm1 == [LM EXCEPT !.tasks[i] = Tail(@)]
      prev == abortControllers[i][k]
  IN /\ IF ~lockForKey /\ prev # 0
        THEN aborted' = aborted \cup {prev} /\ abortLog' = abortLog \cup {<<p, prev>>}
        ELSE UNCHANGED << aborted, abortLog >>
     /\ abortControllers' = [abortControllers EXCEPT ![i][k] = NewAbortController(p)]
     /\ props' = [props EXCEPT ![p].pc = "inflight",
                               ![p].call = request(k, props[p].v, props[p].projectId,
                                                   NewAbortController(p))]
     /\ SetLM(lm1)

\* callback of the ifAvailable request (lines 77-92)
KeyTryCallback(i, p, lockForKey) ==
  LET k == props[p].k
      name == keyLockName(i, props[p].projectId, k)
      lm1 == [LM EXCEPT !.tasks[i] = Tail(@)]
      prev == abortControllers[i][k]
      aborter == NewAbortController(p)
  IN IF ~lockForKey
     THEN IF prev = 0
          THEN \* undefined.abort(): the callback throws
               /\ props' = [props EXCEPT ![p].pc = "threw"]
               /\ SetLM(lm1)
               /\ UNCHANGED << abortControllers, aborted, abortLog >>
          ELSE /\ aborted' = aborted \cup {prev}
               /\ abortLog' = abortLog \cup {<<p, prev>>}
               /\ props' = [props EXCEPT ![p].pc = "keyWait"]
               /\ SetLM(LockRequest(lm1, name, p, i))
               /\ UNCHANGED abortControllers
     ELSE /\ abortControllers' = [abortControllers EXCEPT ![i][k] = aborter]
          /\ props' = [props EXCEPT ![p].pc = "inflight",
                                    ![p].call = request(k, props[p].v,
                                                        props[p].projectId, aborter)]
          /\ SetLM(lm1)
          /\ UNCHANGED << aborted, abortLog >>

\* Mutant of KeyGrantedCallback: the call gets the signal of the handle
\* recorded before, not of the new one.
KeyGrantedCallbackStaleToken(i, p) ==
  LET aborter == NewAbortController(p) IN
  /\ abortControllers' = [abortControllers EXCEPT ![i][props[p].k] = aborter]
  /\ props' = [props EXCEPT ![p].pc = "inflight",
                            ![p].call = request(props[p].k, props[p].v,
                                                props[p].projectId,
                                                abortControllers[i][props[p].k])]
  /\ SetLM([LM EXCEPT !.tasks[i] = Tail(@)])
  /\ UNCHANGED << aborted, abortLog >>

\* callback of the blocking request for the key lock (lines 84-87); aborter
\* is the controller made when the callback of the ifAvailable request ran
KeyGrantedCallback(i, p) ==
  LET aborter == NewAbortController(p) IN
  /\ abortControllers' = [abortControllers EXCEPT ![i][props[p].k] = aborter]
  /\ props' = [props EXCEPT ![p].pc = "inflight",
                            ![p].call = request(props[p].k, props[p].v,
                                                props[p].projectId, aborter)]
  /\ SetLM([LM EXCEPT !.tasks[i] = Tail(@)])
  /\ UNCHANGED << aborted, abortLog >>

\* the event loop of instance i runs its next lock callback
RunTask(i) ==
  /\ tasks[i] # <<>>
  /\ LET t == Head(tasks[i]) IN
       CASE t.type = "lockops"    -> LockopsCallback(i, t.p)
         [] t.type = "keyTry"     -> KeyTryCallback(i, t.p, t.got)
         [] t.type = "keyGranted" -> KeyGrantedCallback(i, t.p)
  /\ UNCHANGED << site, projects, budget, backend, lastCall, lastProxy, observe,
                  late >>

----------------------------------------------------------------------------
\* The transport and the backend

SlotOf(req) == << IF req.endpoint = "userSitePreferences" THEN NoProject
                  ELSE req.projectId, req.k >>

InFlight(p) == p \in 1..Len(props) /\ props[p].pc = "inflight"

Outcomes == {"success", "failure", "cancelled"}

\* the backend after the request of p has reached it
Applied(p) ==
  LET req == props[p].call IN
  [backend EXCEPT ![SlotOf(req)] = IF req.method = "DELETE" THEN Absent ELSE req.data]

\* Mutant of Settle: a call that did not succeed keeps the key lock.
SettleLeaksLock(p, outcome, reached) ==
  /\ InFlight(p)
  /\ CASE outcome = "success"   -> reached /\ props[p].call.signal \notin aborted
       [] outcome = "failure"   -> props[p].call.signal \notin aborted
       [] outcome = "cancelled" -> props[p].call.signal \in aborted
  /\ backend' = IF reached THEN Applied(p) ELSE backend
  /\ props' = [props EXCEPT ![p].pc = "settled", ![p].outcome = outcome]
  /\ IF outcome = "success"
     THEN SetLM(LockRelease(LM, keyLockName(props[p].inst, props[p].projectId, props[p].k)))
     ELSE SetLM(LM)
  /\ UNCHANGED << site, projects, budget, abortControllers, aborted,
                  lastCall, lastProxy, abortLog, observe, late >>

\* The promise of this.#http.request settles: with success once the backend
\* has applied the request; with failure or, after abort(), cancellation,
\* whether or not the request had reached the backend.  .catch(noop) swallows
\* a rejection, the key lock's callback promise resolves and the key lock is
\* released.
Settle(p, outcome, reached) ==
  /\ InFlight(p)
  /\ CASE outcome = "success"   -> reached /\ props[p].call.signal \notin aborted
       [] outcome = "failure"   -> props[p].call.signal \notin aborted
       [] outcome = "cancelled" -> props[p].call.signal \in aborted
  /\ backend' = IF reached THEN Applied(p) ELSE backend
  /\ props' = [props EXCEPT ![p].pc = "settled", ![p].outcome = outcome]
  /\ SetLM(LockRelease(LM, keyLockName(props[p].inst, props[p].projectId, props[p].k)))
  /\ UNCHANGED << site, projects, budget, abortControllers, aborted,
                  lastCall, lastProxy, abortLog, observe, late >>

----------------------------------------------------------------------------
\* The site proxy (#makeSiteProxy)

engineVars == << abortControllers, aborted, props, held, queue, tasks, abortLog >>

SiteDeleteProperty(i, prop) ==
  IF normalizeFn(SiteRegistered, prop) = Err
  THEN /\ Returned(Err)
       /\ UNCHANGED << site, projects, budget, backend, engineVars, observe, late >>
  ELSE /\ budget > 0
       /\ budget' = budget - 1
       /\ site' = [site EXCEPT ![i][prop] = Absent]
       /\ propagate(i, prop, null, NoProject)
       /\ Returned("ok")
       /\ UNCHANGED << projects, backend, abortControllers, aborted,
                       abortLog, observe >>

\* Mutant of SiteSet: the value is stored before it is validated.
SiteSetStoreFirst(i, prop, value) ==
  LET normalizedValue == normalize(SiteRegistered, prop, value) IN
  IF normalizedValue = Err
  THEN /\ Returned(Err)
       /\ site' = IF prop \in DOMAIN site[i]
                  THEN [site EXCEPT ![i][prop] = value] ELSE site
       /\ UNCHANGED << projects, budget, backend, engineVars, observe, late >>
  ELSE /\ budget > 0
       /\ budget' = budget - 1
       /\ site' = [site EXCEPT ![i][prop] = normalizedValue]
       /\ propagate(i, prop, normalizedValue, NoProject)
       /\ Returned("ok")
       /\ UNCHANGED << projects, backend, abortControllers, aborted,
                       abortLog, observe >>

SiteSet(i, prop, value) ==
  LET normalizedValue == normalize(SiteRegistered, prop, value) IN
  IF normalizedValue = Err
  THEN /\ Returned(Err)
       /\ UNCHANGED << site, projects, budget, backend, engineVars, observe, late >>
  ELSE /\ budget > 0
       /\ budget' = budget - 1
       /\ site' = [site EXCEPT ![i][prop] = normalizedValue]
       /\ propagate(i, prop, normalizedValue, NoProject)
       /\ Returned("ok")
       /\ UNCHANGED << projects, backend, abortControllers, aborted,
                       abortLog, observe >>

----------------------------------------------------------------------------
\* The projects proxy (#makeProjectsProxy)

\* Mutant of RegexTest: the pattern without its anchors, /\d+/.
RegexTestUnanchored(projectId) ==
  \E n \in 1..Len(projectId) : projectId[n] \in Digits

\* the Error thrown by the deleteProperty and set traps of the projects proxy
Unsupported == "UnsupportedError"

\* deleteProperty(): delete projects[projectId]
ProjectsDeleteProperty(i, projectId) ==
  /\ Returned(Unsupported)
  /\ UNCHANGED << site, projects, budget, backend, engineVars, observe, late >>

\* Mutant of ProjectsSet: the value becomes the entry of the project.
ProjectsSetReplaces(i, projectId, value) ==
  /\ Returned(Unsupported)
  /\ projects' = [projects EXCEPT ![i][projectId] =
                    [kind |-> "raw", ident |-> @.ident, data |-> EmptyProps]]
  /\ UNCHANGED << site, budget, backend, engineVars, observe, late >>

\* set(): projects[projectId] = value
ProjectsSet(i, projectId, value) ==
  /\ Returned(Unsupported)
  /\ UNCHANGED << site, projects, budget, backend, engineVars, observe, late >>

\* /^\d+$/.test(projectId)
RegexTest(projectId) ==
  /\ Len(projectId) >= 1
  /\ \A n \in 1..Len(projectId) : projectId[n] \in Digits

\* Mutant of NeedsProxy: every access wraps the entry anew.
NeedsProxyAlways(projectProps) ==
  projectProps.kind \in {undefined, "raw", "proxy"}

\* line 153: the entry has to be wrapped
NeedsProxy(projectProps) ==
  projectProps.kind = undefined \/ ~getPropIsReactive(projectProps)

\* get(target, projectId): projects[projectId]
ProjectsGet(i, projectId) ==
  IF ~RegexTest(projectId)
  THEN /\ Returned("TypeError")
       /\ UNCHANGED << site, projects, budget, backend, engineVars, observe, late >>
  ELSE LET projectProps == projects[i][projectId] IN
       /\ IF NeedsProxy(projectProps)
          THEN projects' = [projects EXCEPT ![i][projectId] =
                      [kind |-> "proxy", ident |-> projectProps.ident + 1,
                       data |-> IF projectProps.kind = undefined THEN EmptyProps
                                ELSE projectProps.data]]
          ELSE UNCHANGED projects
       /\ lastCall' = "ok"
       /\ lastProxy' = << projectId, projects'[i][projectId].ident >>
       /\ UNCHANGED << site, budget, backend, engineVars, observe, late >>

\* handlers of the proxy of one project; they exist once get has made it
ProjectDeleteProperty(i, projectId, prop) ==
  /\ projects[i][projectId].kind = "proxy"
  /\ IF normalizeFn(ProjectRegistered, prop) = Err
     THEN /\ Returned(Err)
          /\ UNCHANGED << site, projects, budget, backend, engineVars, observe, late >>
     ELSE /\ budget > 0
          /\ budget' = budget - 1
          /\ projects' = [projects EXCEPT ![i][projectId].data[prop] = Absent]
          /\ propagate(i, prop, null, projectId)
          /\ Returned("ok")
          /\ UNCHANGED << site, backend, abortControllers, aborted,
                          abortLog, observe >>

ProjectSet(i, projectId, prop, propval) ==
  /\ projects[i][projectId].kind = "proxy"
  /\ LET normalizedValue == normalize(ProjectRegistered, prop, propval) IN
     IF normalizedValue = Err
     THEN /\ Returned(Err)
          /\ UNCHANGED << site, projects, budget, backend, engineVars, observe, late >>
     ELSE /\ budget > 0
          /\ budget' = budget - 1
          /\ projects' = [projects EXCEPT ![i][projectId].data[prop] = normalizedValue]
          /\ propagate(i, prop, normalizedValue, projectId)
          /\ Returned("ok")
          /\ UNCHANGED << site, backend, abortControllers, aborted,
                          abortLog, observe >>

----------------------------------------------------------------------------
\* One app instance

App == "i1"

\* Calls the proxies accept
GoodKeys == SiteRegistered
GoodValues == {"A", "b"}
GoodIds == { <<"1">> }

\* Runs of accepted calls: every call reaches the engine.
Next ==
  \/ \E prop \in GoodKeys : SiteDeleteProperty(App, prop)
  \/ \E prop \in GoodKeys, value \in GoodValues : SiteSet(App, prop, value)
  \/ \E projectId \in GoodIds : ProjectsGet(App, projectId)
  \/ \E projectId \in GoodIds, prop \in ProjectRegistered :
       ProjectDeleteProperty(App, projectId, prop)
  \/ \E projectId \in GoodIds, prop \in ProjectRegistered, propval \in GoodValues :
       ProjectSet(App, projectId, prop, propval)
  \/ RunTask(App)
  \/ \E p \in 1..Len(props), outcome \in Outcomes, reached \in BOOLEAN :
       Settle(p, outcome, reached)

Spec == Init /\ [][Next]_vars

\* Runs of every kind of call, the rejected ones included.
NextApi ==
  \/ \E prop \in KeyInputs : SiteDeleteProperty(App, prop)
  \/ \E prop \in KeyInputs, value \in RawInputs : SiteSet(App, prop, value)
  \/ \E projectId \in IdInputs : ProjectsGet(App, projectId)
  \/ \E projectId \in IdInputs : ProjectsDeleteProperty(App, projectId)
  \/ \E projectId \in IdInputs, value \in RawInputs :
       ProjectsSet(App, projectId, value)
  \/ \E projectId \in IdInputs, prop \in KeyInputs :
       ProjectDeleteProperty(App, projectId, prop)
  \/ \E projectId \in IdInputs, prop \in KeyInputs, propval \in RawInputs :
       ProjectSet(App, projectId, prop, propval)
  \/ RunTask(App)
  \/ \E p \in 1..Len(props), outcome \in Outcomes, reached \in BOOLEAN :
       Settle(p, outcome, reached)

SpecApi == InitApi /\ [][NextApi]_vars

\* Runs of accepted calls that record late.
SpecBurst == InitBurst /\ [][Next]_vars

\* Runs of two app instances of one origin (two tabs of one user), which
\* share the lock manager and the backend: accepted site mutations of both.
NextTwo ==
  \/ \E i \in Instances, prop \in GoodKeys : SiteDeleteProperty(i, prop)
  \/ \E i \in Instances, prop \in GoodKeys, value \in GoodValues :
       SiteSet(i, prop, value)
  \/ \E i \in Instances : RunTask(i)
  \/ \E p \in 1..Len(props), outcome \in Outcomes, reached \in BOOLEAN :
       Settle(p, outcome, reached)

SpecTwo == InitTwo /\ [][NextTwo]_vars

\* Runs of accepted calls in which the event loop runs every lock callback
\* that is due, while transport calls may stay in flight for ever.
SpecTasks ==
  /\ Init
  /\ [][Next]_vars
  /\ WF_vars(RunTask(App))

\* Runs of accepted calls in which the event loop runs every lock callback
\* that is due and every transport call that was made settles.
SpecLive ==
  /\ Init
  /\ [][Next]_vars
  /\ WF_vars(RunTask(App))
  /\ \A p \in 1..MaxOps :
       WF_vars(\E outcome \in Outcomes, reached \in BOOLEAN : Settle(p, outcome, reached))

----------------------------------------------------------------------------
\* Vocabulary of the properties

Props == 1..Len(props)

\* the slot of a propagation
SlotOfProp(p) == << props[p].projectId, props[p].k >>

SameSlot(p, q) == props[p].inst = props[q].inst /\ SlotOfProp(p) = SlotOfProp(q)

\* what the container of the app holds for a slot (Absent: no such key)
ContainerValue(slot) ==
  IF slot[1] = NoProject THEN site[App][slot[2]]
  ELSE projects[App][slot[1]].data[slot[2]]

\* what the backend holds once it has applied a propagated value
Stored(v) == IF v = null THEN Absent ELSE v

Ended(p) == props[p].pc \in {"settled", "threw"}

\* no call in flight, no propagation waiting
Quiescent == \A p \in Props : Ended(p)

Succeeded(p) == props[p].outcome = "success"

----------------------------------------------------------------------------
\* C1 (convergence): once the system is quiescent, if every transport call
\* that was not cancelled has succeeded, the backend holds for every slot what
\* the container holds (nothing, if the container lacks the key).
C1_Convergence ==
  ( /\ Quiescent
    /\ \A p \in Props : props[p].outcome \in {"success", "cancelled"} )
  => \A slot \in Slots : backend[slot] = ContainerValue(slot)

\* C2 (coalescing under burst): when the sets to a slot were all made before
\* any earlier transport call of the slot had settled, and in the end exactly
\* one transport call of the slot has completed successfully, that call
\* carries the last value set.  Checked in the runs that record late.
C2_BurstLastValue ==
  \A slot \in Slots :
    LET S == { p \in Props : SlotOfProp(p) = slot }
        won == { p \in S : Succeeded(p) }
        last == CHOOSE p \in S : \A q \in S : q <= p
    IN ( /\ observe
         /\ Cardinality(S) >= 2
         /\ \A p \in S : props[p].v # null /\ p \notin late /\ Ended(p)
         /\ Cardinality(won) = 1 )
       => \A p \in won : props[p].v = props[last].v

\* C3 (slot independence, cancellation): a propagation only ever calls abort()
\* on the controller of a transport call of its own slot.
C3_AbortsOwnSlotOnly ==
  \A e \in abortLog : SameSlot(e[1], e[2])

\* C4 (one call in flight per slot): a transport call in flight holds the lock
\* of its slot, so that no two calls of one slot are in flight together.
C4_OneInFlightPerSlot ==
  /\ \A p \in Props :
       InFlight(p) =>
         held[keyLockName(props[p].inst, props[p].projectId, props[p].k)] = p
  /\ \A p, q \in Props :
       (InFlight(p) /\ InFlight(q) /\ SameSlot(p, q)) => p = q

\* a call is in flight while a later mutation of its slot waits for the lock
C4_Witness ==
  \E p, q \in Props :
    /\ p # q /\ SameSlot(p, q)
    /\ InFlight(p)
    /\ props[q].pc = "keyWait"
    /\ held[keyLockName(props[p].inst, props[p].projectId, props[p].k)] = p

\* C5 (supersession): once set(S, v2) has been applied while the transport
\* call of an earlier set(S, v1) had not resolved, no call carrying v1
\* completes successfully.
C5_NoStaleSuccess ==
  [][ \A p, q \in Props :
        ( /\ p < q /\ SameSlot(p, q)
          /\ props[p].v # null /\ props[q].v # null
          /\ props[p].v # props[q].v
          /\ ~Ended(p) )
        => ~Succeeded(p)' ]_vars

\* the container of the app after the step
ContainerValueNext(slot) ==
  IF slot[1] = NoProject THEN site'[App][slot[2]]
  ELSE projects'[App][slot[1]].data[slot[2]]

\* C6 (non-blocking optimistic write): when an accepted set or delete returns,
\* the container holds the normalized value (lacks the key, for a delete), the
\* mutation has been handed to the engine but no transport call has been made
\* for it, and nothing else of the engine or the backend has moved; the call
\* can be made in every state, whatever locks are held and whatever calls are
\* in flight.
C6_OptimisticWrite ==
  /\ [][ Len(props') # Len(props) =>
          LET p == Len(props')
              r == props'[p]
          IN /\ p = Len(props) + 1
             /\ lastCall' = "ok"
             /\ r.v \in Values \cup {null}
             /\ ContainerValueNext(<< r.projectId, r.k >>) = Stored(r.v)
             /\ r.pc = "lockops" /\ r.outcome = "none"
             /\ \A q \in Props : props'[q] = props[q]
             /\ backend' = backend
             /\ \A slot \in Slots :
                  LET name == keyLockName(App, slot[1], slot[2]) IN
                  held'[name] = held[name] /\ queue'[name] = queue[name]
             /\ abortControllers' = abortControllers
             /\ aborted' = aborted ]_vars
  /\ [] ( budget > 0 =>
           /\ \A prop \in GoodKeys : ENABLED SiteDeleteProperty(App, prop)
           /\ \A prop \in GoodKeys, value \in GoodValues :
                ENABLED SiteSet(App, prop, value)
           /\ \A projectId \in GoodIds, prop \in ProjectRegistered :
                projects[App][projectId].kind = "proxy" =>
                  /\ ENABLED ProjectDeleteProperty(App, projectId, prop)
                  /\ \A propval \in GoodValues :
                       ENABLED ProjectSet(App, projectId, prop, propval) )

\* a set has just returned: the container holds its value, its propagation
\* has not got the coordination lock yet, and the call of an earlier mutation
\* of the slot is still in flight
C6_Witness ==
  /\ lastCall = "ok"
  /\ \E p, q \in Props :
       /\ q = Len(props) /\ p < q /\ SameSlot(p, q)
       /\ InFlight(p)
       /\ props[q].pc = "lockops" /\ props[q].v \in Values
       /\ ContainerValue(SlotOfProp(q)) = props[q].v
       /\ backend[SlotOfProp(q)] # props[q].v

\* a call has thrown: nothing of the containers, the engine or the backend moves
Rejected ==
  /\ lastCall' = Err
  /\ UNCHANGED << site, projects, backend, engineVars >>

\* C7 (validation gate): a set or delete, of the site or of a project, whose
\* key is not registered, and a set whose value the normalizer rejects, throws;
\* the containers are unchanged and nothing is handed to the engine: no
\* propagation, no lock request, no transport call.
C7_ValidationGate ==
  [][ /\ \A prop \in KeyInputs :
           ( /\ normalizeFn(SiteRegistered, prop) = Err
             /\ SiteDeleteProperty(App, prop) ) => Rejected
      /\ \A prop \in KeyInputs, value \in RawInputs :
           ( /\ normalize(SiteRegistered, prop, value) = Err
             /\ SiteSet(App, prop, value) ) => Rejected
      /\ \A projectId \in IdInputs, prop \in KeyInputs :
           ( /\ normalizeFn(ProjectRegistered, prop) = Err
             /\ ProjectDeleteProperty(App, projectId, prop) ) => Rejected
      /\ \A projectId \in IdInputs, prop \in KeyInputs, propval \in RawInputs :
           ( /\ normalize(ProjectRegistered, prop, propval) = Err
             /\ ProjectSet(App, projectId, prop, propval) ) => Rejected
      /\ (lastCall' = Err /\ lastCall # Err) => Rejected ]_vars

\* a call has just been rejected while an accepted mutation is being
\* propagated; the containers hold what the accepted calls stored
C7_Witness ==
  /\ lastCall = Err
  /\ \E p \in Props : InFlight(p)
  /\ \A slot \in Slots :
       \/ \E p \in Props :
            /\ SlotOfProp(p) = slot /\ ContainerValue(slot) = Stored(props[p].v)
            /\ \A q \in Props : SlotOfProp(q) = slot => q <= p
       \/ /\ \A p \in Props : SlotOfProp(p) # slot
          /\ ContainerValue(slot) = backend[slot]

\* C9 (autovivification identity): for a valid project id, the first access
\* makes one container, empty if the id had no data and holding the snapshot
\* data otherwise; whatever reads, sets and deletes follow, each later access
\* returns that same container and none is made again.
C9_StableIdentity ==
  /\ [] \A projectId \in IdInputs :
         projects[App][projectId].kind = "proxy" =>
           /\ projects[App][projectId].ident = 1
           /\ RegexTest(projectId)
  /\ [][ \A projectId \in ValidIdInputs :
           LET old == projects[App][projectId]
               new == projects'[App][projectId]
           IN /\ old.kind = "proxy" =>
                   new.kind = "proxy" /\ new.ident = old.ident
              /\ (old.kind # "proxy" /\ new # old) =>
                   /\ new.kind = "proxy" /\ new.ident = 1
                   /\ new.data = IF old.kind = undefined THEN EmptyProps
                                 ELSE old.data
                   /\ lastProxy' = << projectId, 1 >>
              /\ ProjectsGet(App, projectId) =>
                   /\ new.kind = "proxy"
                   /\ lastCall' = "ok"
                   /\ lastProxy' = << projectId, new.ident >> ]_vars

\* the containers of an id without data and of an id with data have both been
\* made, the former has been written to, and the last access returned the
\* first container made for its id
C9_Witness ==
  /\ \A projectId \in ValidIdInputs : projects[App][projectId].kind = "proxy"
  /\ \E projectId \in ValidIdInputs :
       /\ SnapshotProjects[projectId].kind = undefined
       /\ projects[App][projectId].data # EmptyProps
       /\ lastCall = "ok"
       /\ lastProxy = << projectId, 1 >>

\* C10 (bad identifier): projects[id] with an id that is not a string of
\* decimal digits ("3.5", "-1", "abc") throws a TypeError and leaves the
\* projects mapping as it was; no container ever exists for such an id.
C10_BadIdentifier ==
  /\ [][ \A projectId \in BadIdInputs :
           ProjectsGet(App, projectId) =>
             /\ lastCall' = "TypeError"
             /\ UNCHANGED << projects, lastProxy, site, backend, engineVars >> ]_vars
  /\ [] \A projectId \in BadIdInputs :
         projects[App][projectId] = SnapshotProjects[projectId]

\* an access with a bad id has just thrown, after the container of a valid
\* id had been made
C10_Witness ==
  /\ lastCall = "TypeError"
  /\ \E projectId \in ValidIdInputs : projects[App][projectId].kind = "proxy"
  /\ \A projectId \in BadIdInputs : projects[App][projectId].kind = undefined

\* the transport call of propagation p is made in this step
Issued(p) == props[p].pc # "inflight" /\ props'[p].pc = "inflight"

\* C8 (every assignment a PUT, every delete a DELETE): when lock callbacks run
\* and transport calls settle, every accepted mutation, the delete of a key
\* the container lacks included, gets its transport call and none waits
\* forever; the call is made once, and at the backend it stores the value of
\* a set (PUT) and removes the key for a delete (DELETE).
C8_EveryMutationSent ==
  /\ \A p \in 1..MaxOps :
       [] ( p \in Props =>
              <> (p \in Props /\ props[p].pc \in {"inflight", "settled"}) )
  /\ [][ /\ ( \A prop \in GoodKeys :
                 SiteDeleteProperty(App, prop) =>
                   ( /\ Len(props') = Len(props) + 1
                     /\ props'[Len(props')].v = null ) )
          /\ ( \A projectId \in GoodIds, prop \in ProjectRegistered :
                 ProjectDeleteProperty(App, projectId, prop) =>
                   ( /\ Len(props') = Len(props) + 1
                     /\ props'[Len(props')].v = null ) )
          /\ ( \A p \in Props :
                 /\ Issued(p) => props[p].pc \in {"keyTry", "keyWait"}
                 /\ props[p].pc = "inflight" =>
                      props'[p].pc \in {"inflight", "settled"}
                 /\ props[p].pc = "settled" => props'[p] = props[p]
                 /\ \A outcome \in Outcomes :
                      Settle(p, outcome, TRUE) =>
                        LET req == props[p].call
                        IN /\ req.method = IF props[p].v = null THEN "DELETE" ELSE "PUT"
                           /\ SlotOf(req) = SlotOfProp(p)
                           /\ backend' = [backend EXCEPT ![SlotOfProp(p)] =
                                                           Stored(props[p].v)] ) ]_vars

\* a key that the container already lacked has been deleted again, and the
\* second delete has its transport call in flight too
C8_Witness ==
  \E p, q \in Props :
    /\ q = p + 1 /\ SameSlot(p, q)
    /\ props[p].v = null /\ props[q].v = null
    /\ props[p].pc = "settled"
    /\ InFlight(q)
    /\ ContainerValue(SlotOfProp(q)) = Absent

\* C11 (whole sub-container): projects[id] = x and delete projects[id] throw
\* the unsupported-operation Error for every id, and leave the projects
\* mapping, every sub-container, the site container and the engine as they
\* were.
C11_WholeContainerRejected ==
  [][ /\ ( \A projectId \in IdInputs :
             ProjectsDeleteProperty(App, projectId) =>
               ( /\ lastCall' = Unsupported
                 /\ UNCHANGED << projects, site, backend, engineVars >> ) )
      /\ ( \A projectId \in IdInputs, value \in RawInputs :
             ProjectsSet(App, projectId, value) =>
               ( /\ lastCall' = Unsupported
                 /\ UNCHANGED << projects, site, backend, engineVars >> ) )
      /\ ( (lastCall' = Unsupported /\ lastCall # Unsupported) =>
             UNCHANGED << projects, site, backend, engineVars >> ) ]_vars

\* a whole sub-container operation has just thrown while a sub-container
\* exists and a mutation of it is being propagated
C11_Witness ==
  /\ lastCall = Unsupported
  /\ \E p \in Props :
       /\ props[p].projectId # NoProject
       /\ ~Ended(p)
       /\ projects[App][props[p].projectId].kind = "proxy"
       /\ projects[App][props[p].projectId].data[props[p].k] = Stored(props[p].v)

\* propagation p has a callback waiting in a lock queue or on an event loop
Pending(p) ==
  \/ \E name \in LockNames : \E n \in 1..Len(queue[name]) : queue[name][n] = p
  \/ \E i \in Instances : \E n \in 1..Len(tasks[i]) : tasks[i][n].p = p

\* the transport calls made so far
IssuedCalls == { p \in Props : props[p].pc \in {"inflight", "settled"} }

\* C12 (best-effort settlement): however a transport call settles (success,
\* failure, cancellation; reached the backend or not), the containers stay as
\* they are, nothing is thrown to a caller, the key lock is released, and the
\* propagation is over: nothing of it is queued again, so that there are
\* never more transport calls than accepted mutations.
C12_BestEffortSettlement ==
  /\ [][ \A p \in Props, outcome \in Outcomes, reached \in BOOLEAN :
           Settle(p, outcome, reached) =>
             LET name == keyLockName(props[p].inst, props[p].projectId, props[p].k)
             IN /\ site' = site /\ projects' = projects
                /\ lastCall' = lastCall
                /\ held'[name] # p
                /\ ~Pending(p)'
                /\ props'[p].pc = "settled"
                /\ Len(props') = Len(props)
                /\ \A q \in Props \ {p} : props'[q] = props[q] ]_vars
  /\ [][ \A p \in Props : props[p].pc = "settled" => props'[p] = props[p] ]_vars
  /\ [] ( /\ Len(props) = MaxOps - budget
          /\ Cardinality(IssuedCalls) <= Len(props) )

\* three calls have settled, one in each way, and every lock is free again
C12_Witness ==
  /\ \A outcome \in Outcomes :
       \E p \in Props : props[p].pc = "settled" /\ props[p].outcome = outcome
  /\ \A p \in Props : Ended(p) /\ ~Pending(p)
  /\ \A name \in LockNames : held[name] = 0

\* C13 (request shape): the transport call of a propagation of (slot, value)
\* is a DELETE without body when the value is null and a PUT carrying the
\* value otherwise; it goes to the site endpoint of the key when the slot has
\* no project id and to the project endpoint of (projectId, key) otherwise; its
\* signal is that of the controller made for this propagation, which no other
\* call has and which is the handle recorded when the call is made.
C13_RequestShape ==
  /\ [] \A p \in Props :
         LET c == props[p].call
             v == props[p].v
             projectId == props[p].projectId
         IN IF p \in IssuedCalls
            THEN /\ c.method = IF v = null THEN "DELETE" ELSE "PUT"
                 /\ c.method \in {"DELETE", "PUT"}
                 /\ c.endpoint = IF projectId = NoProject
                                 THEN "userSitePreferences"
                                 ELSE "userProjectPreferences"
                 /\ projectId # NoProject => c.projectId = projectId
                 /\ c.k = props[p].k
                 /\ c.data = IF v = null THEN undefined ELSE v
                 /\ v # null => c.data \in Values
                 /\ c.signal = NewAbortController(p)
                 /\ \A q \in IssuedCalls \ {p} : props[q].call.signal # c.signal
            ELSE c = NoCall
  /\ [][ \A p \in Props :
           Issued(p) =>
             abortControllers'[props[p].inst][props[p].k] = props'[p].call.signal ]_vars

\* a PUT to the site endpoint has settled, a DELETE to a project endpoint is
\* in flight, and a call was made by a propagation that had found its key
\* lock held and waited for it
C13_Witness ==
  \E p, q, r \in Props :
    /\ props[p].pc = "settled"
    /\ props[p].call.method = "PUT"
    /\ props[p].call.endpoint = "userSitePreferences"
    /\ InFlight(q)
    /\ props[q].call.method = "DELETE"
    /\ props[q].call.endpoint = "userProjectPreferences"
    /\ r \in IssuedCalls
    /\ \E c \in Props : << r, c >> \in abortLog

\* a lock callback of propagation p is due on an event loop
HasTask(p) == \E i \in Instances : \E n \in 1..Len(tasks[i]) : tasks[i][n].p = p

\* propagation p is in the queue of the lock
Queued(name, p) == \E n \in 1..Len(queue[name]) : queue[name][n] = p

KeyLockOf(p) == keyLockName(props[p].inst, props[p].projectId, props[p].k)

\* C14 (slot independence, blocking): a propagation holds the coordination
\* lock only until its callback has tried the key lock, never while it waits
\* for the key lock or while its call is in flight; what a propagation that
\* has not made its call waits for is a lock callback that is due or a
\* propagation of its own slot, never one of another slot; so with calls of
\* other slots in flight for ever, a propagation still makes its call unless
\* a call of its own slot is in flight.
C14_BlockingIndependence ==
  /\ [] \A p \in Props :
         /\ held[lockopsName(props[p].inst)] = p => props[p].pc = "lockops"
         /\ props[p].pc = "lockops" =>
              \/ held[lockopsName(props[p].inst)] = p /\ HasTask(p)
              \/ /\ Queued(lockopsName(props[p].inst), p)
                 /\ \E h \in Props : /\ held[lockopsName(props[p].inst)] = h
                                      /\ HasTask(h)
         /\ props[p].pc = "keyTry" => HasTask(p)
         /\ props[p].pc = "keyWait" =>
              \/ held[KeyLockOf(p)] = p /\ HasTask(p)
              \/ /\ Queued(KeyLockOf(p), p)
                 /\ \E h \in Props : /\ held[KeyLockOf(p)] = h
                                      /\ SameSlot(h, p)
                                      /\ (InFlight(h) \/ HasTask(h))
  /\ \A p \in 1..MaxOps :
       [] ( p \in Props =>
              <> ( /\ p \in Props
                   /\ \/ p \in IssuedCalls
                      \/ \E q \in Props : SameSlot(p, q) /\ InFlight(q) ) )

\* the call of one slot is in flight with a second mutation of the slot
\* waiting behind it, and the call of a mutation of another slot, made after
\* both, is in flight too
C14_Witness ==
  \E p, q, r \in Props :
    /\ p < q /\ q < r
    /\ SameSlot(p, q) /\ ~SameSlot(p, r)
    /\ InFlight(p)
    /\ props[q].pc = "keyWait"
    /\ InFlight(r)

\* the propagations of a slot that wait for its lock, their values unsent
Waiting(slot) ==
  { p \in Props : SlotOfProp(p) = slot /\ props[p].pc = "keyWait" }

\* C15 (bounded pending state): for every slot at most one propagation waits
\* for the slot lock.
C15_AtMostOneWaiting ==
  \A slot \in Slots : Cardinality(Waiting(slot)) <= 1

\* C16 (instance isolation of slots): with two app instances on one lock
\* manager, the lock of a slot has a different name in each instance, even for
\* the same scope, project id and key; a propagation finds its slot lock taken
\* only by, waits only behind, and calls abort() only on a controller of, a
\* propagation of its own instance.
C16_InstanceIsolation ==
  /\ [] ( /\ \A i, j \in Instances, slot \in Slots :
               i # j => keyLockName(i, slot[1], slot[2]) # keyLockName(j, slot[1], slot[2])
          /\ \A p \in Props :
               /\ held[KeyLockOf(p)] # 0 =>
                    props[held[KeyLockOf(p)]].inst = props[p].inst
               /\ \A n \in 1..Len(queue[KeyLockOf(p)]) :
                    props[queue[KeyLockOf(p)][n]].inst = props[p].inst
          /\ \A e \in abortLog : props[e[1]].inst = props[e[2]].inst
          /\ \A p \in Props : props[p].pc # "threw" )
  /\ [][ \A p \in Props :
           ( /\ props[p].pc = "lockops" /\ props'[p].pc = "keyTry"
             /\ \E n \in 1..Len(tasks'[props[p].inst]) :
                  tasks'[props[p].inst][n] = Task("keyTry", p, FALSE) )
           => \E h \in Props : /\ held[KeyLockOf(p)] = h
                                /\ props[h].inst = props[p].inst
                                /\ SameSlot(h, p) ]_vars

\* both instances have a call for the site key in flight at once, and in one
\* of them a second mutation of the key waits behind its own call
C16_Witness ==
  \E p, q, r \in Props :
    /\ props[p].inst # props[q].inst
    /\ SlotOfProp(p) = SlotOfProp(q)
    /\ InFlight(p) /\ InFlight(q)
    /\ SameSlot(p, r) /\ props[r].pc = "keyWait"
    /\ << r, p >> \in abortLog

\* the callback of propagation p has taken its decision: it has called
\* abort() and asked for the key lock, or has made its call
Decided(p) == props[p].pc \in {"keyWait", "inflight", "settled"}

\* C17 (only the most recent value is attempted): once a newer mutation of a
\* slot has been handed to the engine and the engine has taken its decision
\* for it, no transport call carrying an older value of the slot is made.
C17_NoOlderValueIssued ==
  [][ \A p, q \in Props :
        ( p < q /\ SameSlot(p, q) /\ Decided(q) ) => ~Issued(p) ]_vars

\* the propagations of a slot
PropsOf(slot) == { p \in Props : SlotOfProp(p) = slot }

\* C18 (per-slot issue order): the transport calls of a slot are made in the
\* order of the mutations that caused them: when a call is made, the calls of
\* all earlier mutations of the slot have been made; so the call made last
\* for a slot, once all are made, carries what the container holds.
C18_IssueOrder ==
  /\ [][ \A p, q \in Props :
           ( p < q /\ SameSlot(p, q) /\ Issued(q) ) => p \in IssuedCalls ]_vars
  /\ [] \A slot \in Slots :
         ( PropsOf(slot) # {} /\ PropsOf(slot) \subseteq IssuedCalls ) =>
           LET last == CHOOSE p \in PropsOf(slot) : \A q \in PropsOf(slot) : q <= p
               c == props[last].call
           IN ContainerValue(slot) =
                IF c.method = "DELETE" THEN Absent ELSE c.data

\* three mutations of one slot, with different values, have all had their
\* calls made, the second and third after waiting for the lock
C18_Witness ==
  \E p \in Props :
    /\ p + 2 \in Props
    /\ SameSlot(p, p + 1) /\ SameSlot(p, p + 2)
    /\ props[p].v # props[p + 1].v /\ props[p + 1].v # props[p + 2].v
    /\ props[p].pc = "settled" /\ props[p + 1].pc = "settled"
    /\ InFlight(p + 2)
    /\ \E c, d \in Props : << p + 1, c >> \in abortLog /\ << p + 2, d >> \in abortLog

\* propagation q takes a step of its decision: the try of the key lock, the
\* abort() of the prior handle, the record of its own
DecisionStep(q) ==
  /\ props[q].pc \in {"lockops", "keyTry", "keyWait"}
  /\ props'[q].pc # props[q].pc

\* C19 (atomic decision): a propagation holds the coordination lock from the
\* try of the key lock until it has called abort() on the prior handle or
\* recorded its own, and no decision step of another propagation of the
\* instance falls between its try and its cancel or record step.
C19_AtomicDecision ==
  /\ [] \A p \in Props :
         props[p].pc = "keyTry" => held[lockopsName(props[p].inst)] = p
  /\ [][ \A p, q \in Props :
           ( /\ p # q /\ props[p].inst = props[q].inst
             /\ props[p].pc = "keyTry" /\ props'[p].pc = "keyTry" )
           => ~DecisionStep(q) ]_vars

\* C20 (coordination lock scoped to the instance): a propagation never waits
\* for a coordination lock that a propagation of another app instance holds.
C20_CoordinationLockPerInstance ==
  \A p \in Props :
    LET name == lockopsName(props[p].inst) IN
    ( Queued(name, p) /\ held[name] # 0 ) =>
      props[held[name]].inst = props[p].inst

\* the id is the decimal form of a positive integer
IsPositiveInteger(projectId) ==
  /\ Len(projectId) >= 1
  /\ \A n \in 1..Len(projectId) : projectId[n] \in Digits
  /\ \E n \in 1..Len(projectId) : projectId[n] # "0"

\* C21 (positive identifiers only): no sub-container is ever made for an id
\* that is not a positive integer, zero included.
C21_PositiveIdsOnly ==
  \A projectId \in IdInputs :
    ~IsPositiveInteger(projectId) =>
      projects[App][projectId] = SnapshotProjects[projectId]

\* the callbacks of ifAvailable requests that are due with no lock
NotAcquiredDue ==
  { e \in Instances \X Props :
      \E n \in 1..Len(tasks[e[1]]) : tasks[e[1]][n] = Task("keyTry", e[2], FALSE) }

\* C22 (handle present in the not-acquired branch): whenever the callback of
\* an ifAvailable request is due, or runs, without the lock, a handle is
\* recorded under the key it looks up; abort() is never called on undefined.
C22_HandleRecorded ==
  /\ \A p \in Props : props[p].pc # "threw"
  /\ \A e \in NotAcquiredDue : abortControllers[e[1]][props[e[2]].k] # 0

\* with a call in flight, a second propagation has taken the not-acquired
\* branch and waits, and the callback of a third is due without the lock
C22_Witness ==
  /\ NotAcquiredDue # {}
  /\ \E e \in abortLog : props[e[1]].pc = "keyWait" /\ InFlight(e[2])

\* the handles a later propagation can reach through #abortControllers
Recorded ==
  { abortControllers[i][k] : i \in Instances, k \in Keys } \ {0}

\* C23 (token never cancelled beforehand): when a transport call is made, the
\* controller whose signal it gets has not been aborted and is the handle
\* recorded in the same step, holding the key lock; the controller of a
\* propagation that has not made its call is neither recorded nor aborted, so
\* a propagation that waits for the key lock cannot be cancelled.
C23_TokenFresh ==
  /\ [][ \A p \in Props :
           Issued(p) =>
             /\ props'[p].call.signal \notin aborted'
             /\ NewAbortController(p) \notin Recorded
             /\ abortControllers'[props[p].inst][props[p].k] = props'[p].call.signal
             /\ held'[KeyLockOf(p)] = p ]_vars
  /\ [] \A p \in Props \ IssuedCalls :
         /\ NewAbortController(p) \notin aborted
         /\ NewAbortController(p) \notin Recorded
  /\ [] ( aborted \subseteq { props[p].call.signal : p \in IssuedCalls } )

\* a propagation that had to wait for the key lock has its call in flight,
\* its token not aborted, although another propagation took the not-acquired
\* branch while it was waiting
C23_Witness ==
  \E p, q \in Props :
    /\ p < q /\ SameSlot(p, q)
    /\ InFlight(p)
    /\ props[p].call.signal \notin aborted
    /\ \E c \in Props : << p, c >> \in abortLog
    /\ \E c \in Props : << q, c >> \in abortLog /\ c # p

====
